---- MODULE Spec2Model ----
(***************************************************************************)
(* A model of libbmd's capture tool, src/src/bmdcapture.c: the packet      *)
(* queue (the avpacket_queue functions), the capture callbacks filling it,  *)
(* the writer thread push_packet that drains it into the muxer and the main *)
(* thread that waits on the shutdown condition and tears down.             *)
(*                                                                         *)
(* Two specifications share the state:                                     *)
(*   Spec   the program as main() wires it: main, the two capture          *)
(*          threads and the writer thread;                                 *)
(*   SpecQ  the queue's functions called concurrently by the two capture   *)
(*          callbacks, one consumer (blocking and non-blocking get) and    *)
(*          one thread calling avpacket_queue_flush.                       *)
(* Every thread advances one step at a time. A step ends where the thread  *)
(* can block (a mutex, a condition), and once inside each critical section *)
(* of put and get, where the list is relinked and the counters are not yet *)
(* updated.                                                                *)
(***************************************************************************)
EXTENDS Integers, Sequences, FiniteSets, TLC

(* ---------------------------------------------------------------- bounds *)

\* Number of capture callbacks (video and audio together) the driver makes.
MaxUnits == 3

\* The frame limit (-n) the bounded runs use besides the default and 0.
FrameLimit == 2

(* ------------------------------------------------------------- constants *)

\* sizeof(AVPacketList), the per-node overhead added to q->size. Its value
\* depends on the libav build; only its being a fixed positive number matters.
NodeOverhead == 88

\* Width of unsigned long long / uint64_t, scaled from 64 bits to what the
\* model checker's integers can hold; arithmetic on q->size and the
\* conversion of max_frames to unsigned are taken modulo 2^ULL_BITS.
ULL_BITS == 30

ULL_MOD == 2 ^ ULL_BITS

\* AVERROR(ENOMEM)
ENOMEM_ERR == -12

NULL == 0

\* No return value yet.
Pending == 1

\* Addresses av_malloc can return for an AVPacketList node.
Addr == 1 .. MaxUnits

\* stride * height of a video frame; nb_samples * channels * (depth / 8).
VideoSizes == {4}

AudioSizes == {2}

\* Line 32, and the values -n sets (line 387).
MaxFramesChoices == {-1, 0, FrameLimit}

\* Line 34: 1024 * 1024 * 1024, above every size a bounded run reaches.
DefaultMemoryLimit == 1024 * 1024 * 1024

\* The memory limits of the runs: 0 (-M 0, line 390), the size of one queued
\* video unit (sizes are scaled: -M sets multiples of 2^30 bytes), and the
\* default.
MemoryLimits == {0, 4 + NodeOverhead, DefaultMemoryLimit}

NoThread == "none"

Producers == {"video", "audio"}

Consumers == {"writer", "cons"}

Threads == {"main", "video", "audio", "writer", "cons", "flusher"}

VARIABLES
    \* AVPacketQueue queue
    first_pkt, last_pkt, nb_packets, size,
    mutex,          \* the thread holding queue.mutex, or NoThread
    qwait,          \* the threads blocked in pthread_cond_wait(&q->cond)
    \* the heap of AVPacketList nodes: heap[a] = [used, next, unit]
    heap,
    \* every packet a callback has built: pkts[u] = [tag, size, refs, freed, res]
    \*   refs: how often its payload was released (av_packet_unref or the muxer)
    \*   freed: how often the node that carried it was released (av_free)
    \*   res: what avpacket_queue_put returned for it (Pending before it returns)
    pkts,
    \* per thread: position and locals
    pc, pkt1, cur, ret, block,
    \* statics of the program
    verbose, max_frames, memory_limit, frame_count,
    \* the capture source, the coordinator condition, the muxer, the process
    capturing, mainwait, signals, cyc, written, trailer,
    \* history: units in the order the puts took the lock, units in the order
    \* gets returned them, units released by flush, signals on q->cond,
    \* per-thread snapshot taken by a get or flush when it took the lock
    enq, deq, gone, qsignals, snap

qvars == <<first_pkt, last_pkt, nb_packets, size>>

vars == <<first_pkt, last_pkt, nb_packets, size, mutex, qwait, heap, pkts,
          pc, pkt1, cur, ret, block, verbose, max_frames, memory_limit,
          frame_count, capturing, mainwait, signals, cyc, written, trailer,
          enq, deq, gone, qsignals, snap>>

progvars == <<verbose, max_frames, memory_limit>>

coordvars == <<capturing, mainwait, signals, cyc, written, trailer>>

(* --------------------------------------------------------------- helpers *)

FreeNode == [used |-> FALSE, next |-> NULL, unit |-> 0]

NoSnap == <<>>

\* Unsigned arithmetic of q->size.
UAdd(a, b) == (a + b) % ULL_MOD

USub(a, b) == (a - b + ULL_MOD) % ULL_MOD

\* pkt1->pkt.size + sizeof(*pkt1)
NodeBytes(u) == pkts[u].size + NodeOverhead

\* The units of the nodes reachable from address a, following next at most
\* n times (n bounds the walk should the chain be cyclic).
RECURSIVE Chain(_, _)
Chain(a, n) ==
    IF a = NULL \/ n = 0 THEN <<>>
    ELSE <<a>> \o Chain(heap[a].next, n - 1)

ChainAddrs == Chain(first_pkt, MaxUnits + 1)

ChainUnits == [i \in 1 .. Len(ChainAddrs) |-> heap[ChainAddrs[i]].unit]

RECURSIVE SumBytes(_)
SumBytes(s) == IF s = <<>> THEN 0 ELSE NodeBytes(Head(s)) + SumBytes(Tail(s))

Range(s) == {s[i] : i \in 1 .. Len(s)}

IsPrefix(s, t) == Len(s) <= Len(t) /\ \A i \in 1 .. Len(s) : s[i] = t[i]

\* The enqueued units flush has not released, in enqueue order.
Live(s) == SelectSeq(s, LAMBDA u : u \notin gone)

\* av_malloc: the lowest free address, NULL when none is left.
AvMalloc ==
    IF \E a \in Addr : ~heap[a].used
    THEN CHOOSE a \in Addr : ~heap[a].used /\ \A b \in Addr : b < a => heap[b].used
    ELSE NULL

\* av_free(p): the node becomes free; it counts one release of the node of
\* the unit it carried.
AvFree(h, a) == [h EXCEPT ![a] = FreeNode]

CountNodeFree(p, u) == [p EXCEPT ![u].freed = @ + 1]

\* av_packet_unref / the muxer consuming the packet: one release of the payload.
CountUnref(p, u) == [p EXCEPT ![u].refs = @ + 1]

\* pthread_cond_signal(&q->cond): wakes one waiter, if any. A woken thread
\* has still to take the mutex again before pthread_cond_wait returns.
QSignalChoices == IF qwait = {} THEN {NoThread} ELSE qwait

QSnapshot == <<first_pkt, last_pkt, nb_packets, size>>

Alive == pc["main"] # "exited"

Goto(t, l) == [pc EXCEPT ![t] = l]

(* ------------------------------------------------- the capture callbacks *)

NewPkt(tag, sz) == [tag |-> tag, size |-> sz, refs |-> 0, freed |-> 0, res |-> Pending]

\* Line 257: verbose && frame_count++ % 25 == 0. The increment is the right
\* operand of &&, evaluated only when verbose is set.
CountFrame(v, fc) == IF v # 0 THEN (fc + 1) % ULL_MOD ELSE fc

LogsFrame(v, fc) == v # 0 /\ fc % 25 = 0

\* video_callback, lines 247-276, up to the call of avpacket_queue_put.
VideoCallback ==
    /\ Alive /\ capturing /\ pc["video"] = "cb_idle"
    /\ Len(pkts) < MaxUnits
    /\ \E sz \in VideoSizes : pkts' = Append(pkts, NewPkt("video", sz))
    /\ cur' = [cur EXCEPT !["video"] = Len(pkts) + 1]
    /\ frame_count' = CountFrame(verbose, frame_count)
    /\ pc' = Goto("video", IF LogsFrame(verbose, frame_count)
                           THEN "cb_qsize" ELSE "put_alloc")
    /\ UNCHANGED <<qvars, mutex, qwait, heap, pkt1, ret, block, progvars,
                   coordvars, enq, deq, gone, qsignals, snap>>

\* Line 258: avpacket_queue_size(&queue) for the log line: lock, read, unlock.
VideoLogSize ==
    /\ Alive /\ pc["video"] = "cb_qsize"
    /\ mutex = NoThread
    /\ pc' = Goto("video", "put_alloc")
    /\ UNCHANGED <<qvars, mutex, qwait, heap, pkts, pkt1, cur, ret, block,
                   progvars, frame_count, coordvars, enq, deq, gone, qsignals,
                   snap>>

\* audio_callback, lines 282-299, up to the call of avpacket_queue_put.
AudioCallback ==
    /\ Alive /\ capturing /\ pc["audio"] = "cb_idle"
    /\ Len(pkts) < MaxUnits
    /\ \E sz \in AudioSizes : pkts' = Append(pkts, NewPkt("audio", sz))
    /\ cur' = [cur EXCEPT !["audio"] = Len(pkts) + 1]
    /\ pc' = Goto("audio", "put_alloc")
    /\ UNCHANGED <<qvars, mutex, qwait, heap, pkt1, ret, block, progvars,
                   frame_count, coordvars, enq, deq, gone, qsignals, snap>>

CallbackResultOfPut(r) == r

\* Lines 277-279 and 300-302: what the callback returns to the driver once
\* avpacket_queue_put has returned r.
CallbackResult(r) == 0

(* ---------------------------------------------------- avpacket_queue_put *)

\* Lines 85-95, the allocations succeed: a node holding a reference to the
\* packet, its next NULL.
PutAllocOk(t) ==
    /\ AvMalloc # NULL
    /\ heap' = [heap EXCEPT ![AvMalloc] =
                   [used |-> TRUE, next |-> NULL, unit |-> cur[t]]]
    /\ pkt1' = [pkt1 EXCEPT ![t] = AvMalloc]
    /\ pc' = Goto(t, "put_lock")
    /\ UNCHANGED <<pkts, ret, cur, qsignals, qwait>>

\* Lines 86-88 and 90-93: av_malloc or av_packet_ref fails; the node, if it
\* was allocated, is freed again and the error is returned.
PutAllocFail(t) ==
    /\ ret' = [ret EXCEPT ![t] = CallbackResult(ENOMEM_ERR)]
    /\ pkts' = [pkts EXCEPT ![cur[t]].res = ENOMEM_ERR]
    /\ pc' = Goto(t, "cb_idle")
    /\ cur' = [cur EXCEPT ![t] = 0]
    /\ UNCHANGED <<heap, pkt1, qsignals, qwait>>

PutAlloc(t) ==
    /\ Alive /\ pc[t] = "put_alloc"
    /\ (PutAllocOk(t) \/ PutAllocFail(t))
    /\ UNCHANGED <<qvars, mutex, block, progvars, frame_count, coordvars, enq,
                   deq, gone, snap>>

PutMayLockBelowLimit(t) == mutex = NoThread /\ size <= memory_limit

\* What put waits for before line 97 returns: the queue mutex, nothing else.
PutMayLock(t) == mutex = NoThread

PutLockAtHead(t) ==
    /\ Alive /\ pc[t] = "put_lock"
    /\ PutMayLock(t)
    /\ mutex' = t
    /\ first_pkt' = pkt1[t]
    /\ heap' = [heap EXCEPT ![pkt1[t]].next = first_pkt]
    /\ enq' = Append(enq, cur[t])
    /\ pc' = Goto(t, "put_tail")
    /\ UNCHANGED <<last_pkt, nb_packets, size, qwait, pkts, pkt1, cur, ret,
                   block, progvars, frame_count, coordvars, deq, gone,
                   qsignals, snap>>

\* Lines 97-103: take the mutex and link the node behind the last one.
PutLock(t) ==
    /\ Alive /\ pc[t] = "put_lock"
    /\ PutMayLock(t)
    /\ mutex' = t
    /\ IF last_pkt = NULL
       THEN first_pkt' = pkt1[t] /\ heap' = heap
       ELSE first_pkt' = first_pkt
            /\ heap' = [heap EXCEPT ![last_pkt].next = pkt1[t]]
    /\ enq' = Append(enq, cur[t])
    /\ pc' = Goto(t, "put_tail")
    /\ UNCHANGED <<last_pkt, nb_packets, size, qwait, pkts, pkt1, cur, ret,
                   block, progvars, frame_count, coordvars, deq, gone,
                   qsignals, snap>>

\* Lines 105-107.
PutTail(t) ==
    /\ Alive /\ pc[t] = "put_tail"
    /\ last_pkt' = pkt1[t]
    /\ nb_packets' = nb_packets + 1
    /\ size' = UAdd(size, NodeBytes(heap[pkt1[t]].unit))
    /\ pc' = Goto(t, "put_unlock")
    /\ UNCHANGED <<first_pkt, mutex, qwait, heap, pkts, pkt1, cur, ret, block,
                   progvars, frame_count, coordvars, enq, deq, gone, qsignals,
                   snap>>

\* Lines 109-112: signal the queue's condition, unlock, return 0; the
\* callback returns.
PutSignalUnlock(t) ==
    /\ Alive /\ pc[t] = "put_unlock"
    /\ \E w \in QSignalChoices :
          /\ qwait' = qwait \ {w}
          /\ pc' = IF w = NoThread THEN Goto(t, "cb_idle")
                   ELSE [pc EXCEPT ![t] = "cb_idle", ![w] = "get_relock"]
    /\ qsignals' = qsignals + 1
    /\ mutex' = NoThread
    /\ ret' = [ret EXCEPT ![t] = CallbackResult(0)]
    /\ pkts' = [pkts EXCEPT ![cur[t]].res = 0]
    /\ cur' = [cur EXCEPT ![t] = 0]
    /\ pkt1' = [pkt1 EXCEPT ![t] = NULL]
    /\ UNCHANGED <<qvars, heap, block, progvars, frame_count, coordvars, enq,
                   deq, gone, snap>>

(* ---------------------------------------------------- avpacket_queue_get *)

LastAfterGetStale(nxt) == last_pkt

\* Lines 126-128: last_pkt once first_pkt has become nxt.
LastAfterGet(nxt) == IF nxt = NULL THEN NULL ELSE last_pkt

\* Lines 123-128: the head is unlinked.
GetUnlink(t) ==
    /\ first_pkt # NULL
    /\ pkt1' = [pkt1 EXCEPT ![t] = first_pkt]
    /\ first_pkt' = heap[first_pkt].next
    /\ last_pkt' = LastAfterGet(heap[first_pkt].next)
    /\ mutex' = t
    /\ pc' = Goto(t, "get_take")
    /\ UNCHANGED <<qwait, ret, cur>>

GetEmptyWaits(t) ==
    /\ first_pkt = NULL /\ block[t] = 0
    /\ mutex' = NoThread
    /\ qwait' = qwait \cup {t}
    /\ pc' = Goto(t, "get_wait")
    /\ UNCHANGED <<first_pkt, last_pkt, ret, pkt1, cur>>

\* Lines 135-137: empty and not blocking.
GetEmpty(t) ==
    /\ first_pkt = NULL /\ block[t] = 0
    /\ ret' = [ret EXCEPT ![t] = 0]
    /\ mutex' = t
    /\ pc' = Goto(t, "get_unlock")
    /\ UNCHANGED <<first_pkt, last_pkt, qwait, pkt1, cur>>

\* A wait at line 139 that kept the mutex.
GetWaitKeepsMutex(t) ==
    /\ first_pkt = NULL /\ block[t] # 0
    /\ mutex' = t
    /\ qwait' = qwait \cup {t}
    /\ pc' = Goto(t, "get_wait")
    /\ UNCHANGED <<first_pkt, last_pkt, ret, pkt1, cur>>

\* Lines 138-139: empty and blocking: pthread_cond_wait releases the mutex
\* and waits.
GetWait(t) ==
    /\ first_pkt = NULL /\ block[t] # 0
    /\ mutex' = NoThread
    /\ qwait' = qwait \cup {t}
    /\ pc' = Goto(t, "get_wait")
    /\ UNCHANGED <<first_pkt, last_pkt, ret, pkt1, cur>>

\* One pass of the for (;;) loop, lines 122-141, by a thread that has just
\* got the mutex.
GetLoop(t) == GetUnlink(t) \/ GetEmpty(t) \/ GetWait(t)

\* Line 120, then the loop. The call remembers the queue and the caller's
\* packet as it found them, and how many units had been enqueued.
GetLock(t) ==
    /\ Alive /\ pc[t] = "get_lock"
    /\ mutex = NoThread
    /\ snap' = [snap EXCEPT ![t] = <<QSnapshot, cur[t], Len(enq)>>]
    /\ GetLoop(t)
    /\ UNCHANGED <<nb_packets, size, heap, pkts, block, progvars, frame_count,
                   coordvars, enq, deq, gone, qsignals>>

SizeAfterGetNoOverhead(sz, u) == USub(sz, pkts[u].size)

\* Line 130.
SizeAfterGet(sz, u) == USub(sz, NodeBytes(u))

\* Lines 129-134: the counters, the packet handed to the caller, the node freed.
GetTake(t) ==
    /\ Alive /\ pc[t] = "get_take"
    /\ nb_packets' = nb_packets - 1
    /\ size' = SizeAfterGet(size, heap[pkt1[t]].unit)
    /\ cur' = [cur EXCEPT ![t] = heap[pkt1[t]].unit]
    /\ heap' = AvFree(heap, pkt1[t])
    /\ pkts' = CountNodeFree(pkts, heap[pkt1[t]].unit)
    /\ deq' = Append(deq, heap[pkt1[t]].unit)
    /\ ret' = [ret EXCEPT ![t] = 1]
    /\ pc' = Goto(t, "get_unlock")
    /\ UNCHANGED <<first_pkt, last_pkt, mutex, qwait, pkt1, block, progvars,
                   frame_count, coordvars, enq, gone, qsignals, snap>>

\* pthread_cond_wait may return without a signal (a spurious wake-up).
GetSpuriousWake(t) ==
    /\ Alive /\ pc[t] = "get_wait"
    /\ qwait' = qwait \ {t}
    /\ pc' = Goto(t, "get_relock")
    /\ UNCHANGED <<qvars, mutex, heap, pkts, pkt1, cur, ret, block, progvars,
                   frame_count, coordvars, enq, deq, gone, qsignals, snap>>

AfterWakeNoRecheck(t) ==
    IF first_pkt # NULL THEN GetUnlink(t)
    ELSE /\ ret' = [ret EXCEPT ![t] = 1]
         /\ mutex' = t
         /\ pc' = Goto(t, "get_unlock")
         /\ UNCHANGED <<first_pkt, last_pkt, qwait, pkt1, cur>>

\* What a woken thread does once pthread_cond_wait has the mutex again: the
\* loop starts over at line 123.
AfterWake(t) == GetLoop(t)

\* pthread_cond_wait returns holding the mutex.
GetRelock(t) ==
    /\ Alive /\ pc[t] = "get_relock"
    /\ mutex = NoThread
    /\ AfterWake(t)
    /\ UNCHANGED <<nb_packets, size, heap, pkts, block, progvars, frame_count,
                   coordvars, enq, deq, gone, qsignals, snap>>

\* Where avpacket_queue_get returns to: push_packet's while condition
\* (line 313), or the consumer of SpecQ.
ReturnSite(t, r) ==
    IF t = "writer" THEN (IF r # 0 THEN "w_write" ELSE "w_done") ELSE "c_idle"

\* Line 313: push_packet calls avpacket_queue_get(&queue, &pkt, 1).
WriterBlock == 1

\* Lines 142-143.
GetUnlock(t) ==
    /\ Alive /\ pc[t] = "get_unlock"
    /\ mutex' = NoThread
    /\ snap' = [snap EXCEPT ![t] = NoSnap]
    /\ pkt1' = [pkt1 EXCEPT ![t] = NULL]
    /\ pc' = Goto(t, ReturnSite(t, ret[t]))
    /\ UNCHANGED <<qvars, qwait, heap, pkts, cur, ret, block, progvars,
                   frame_count, coordvars, enq, deq, gone, qsignals>>

\* A call avpacket_queue_get(&queue, &pkt, b) by the consumer of SpecQ.
ConsumerGet ==
    /\ Alive /\ pc["cons"] = "c_idle"
    /\ \E b \in {0, 1} : block' = [block EXCEPT !["cons"] = b]
    /\ pc' = Goto("cons", "get_lock")
    /\ UNCHANGED <<qvars, mutex, qwait, heap, pkts, pkt1, cur, ret, progvars,
                   frame_count, coordvars, enq, deq, gone, qsignals, snap>>

(* -------------------------------------------------- avpacket_queue_flush *)

\* Lines 60-61: lock; pkt = q->first_pkt. The call remembers the units it
\* found queued.
FlushLock(t) ==
    /\ Alive /\ pc[t] = "f_idle"
    /\ mutex = NoThread
    /\ mutex' = t
    /\ pkt1' = [pkt1 EXCEPT ![t] = first_pkt]
    /\ snap' = [snap EXCEPT ![t] = ChainUnits]
    /\ pc' = Goto(t, "f_loop")
    /\ UNCHANGED <<qvars, qwait, heap, pkts, cur, ret, block, progvars,
                   frame_count, coordvars, enq, deq, gone, qsignals>>

FlushReleaseNodeOnly(p, u) == CountNodeFree(p, u)

\* Lines 63-64: av_packet_unref(&pkt->pkt); av_freep(&pkt).
FlushRelease(p, u) == CountNodeFree(CountUnref(p, u), u)

\* Lines 62-64, one iteration: pkt1 = pkt->next; unref the packet; free the
\* node; pkt = pkt1.
FlushStep(t) ==
    /\ Alive /\ pc[t] = "f_loop" /\ pkt1[t] # NULL
    /\ pkt1' = [pkt1 EXCEPT ![t] = heap[pkt1[t]].next]
    /\ pkts' = FlushRelease(pkts, heap[pkt1[t]].unit)
    /\ heap' = AvFree(heap, pkt1[t])
    /\ gone' = gone \cup {heap[pkt1[t]].unit}
    /\ UNCHANGED <<qvars, mutex, qwait, pc, cur, ret, block, progvars,
                   frame_count, coordvars, enq, deq, qsignals, snap>>

\* Lines 66-69.
FlushReset(t) ==
    /\ Alive /\ pc[t] = "f_loop" /\ pkt1[t] = NULL
    /\ last_pkt' = NULL
    /\ first_pkt' = NULL
    /\ nb_packets' = 0
    /\ size' = 0
    /\ pc' = Goto(t, "f_unlock")
    /\ UNCHANGED <<mutex, qwait, heap, pkts, pkt1, cur, ret, block, progvars,
                   frame_count, coordvars, enq, deq, gone, qsignals, snap>>

\* Lines 70-71.
FlushUnlock(t) ==
    /\ Alive /\ pc[t] = "f_unlock"
    /\ mutex' = NoThread
    /\ snap' = [snap EXCEPT ![t] = NoSnap]
    /\ pc' = Goto(t, "f_idle")
    /\ UNCHANGED <<qvars, qwait, heap, pkts, pkt1, cur, ret, block, progvars,
                   frame_count, coordvars, enq, deq, gone, qsignals>>

(* ------------------------------------------------------------------ SpecQ *)

\* avpacket_queue_init (lines 49-54) and the statics' initializers (31-34).
QueueInit ==
    /\ first_pkt = NULL /\ last_pkt = NULL /\ nb_packets = 0 /\ size = 0
    /\ mutex = NoThread /\ qwait = {}
    /\ heap = [a \in Addr |-> FreeNode]
    /\ pkts = <<>>
    /\ pkt1 = [t \in Threads |-> NULL]
    /\ cur = [t \in Threads |-> 0]
    /\ ret = [t \in Threads |-> IF t = "main" THEN 1 ELSE 0]
    /\ block = [t \in Threads |-> 0]
    /\ frame_count = 0
    /\ mainwait = FALSE /\ signals = 0 /\ cyc = 0 /\ written = <<>>
    /\ trailer = FALSE
    /\ enq = <<>> /\ deq = <<>> /\ gone = {} /\ qsignals = 0
    /\ snap = [t \in Threads |-> NoSnap]

InitQ ==
    /\ QueueInit
    /\ verbose \in {0, 1}
    /\ max_frames = -1
    /\ memory_limit = ULL_MOD - 1
    /\ capturing = TRUE
    /\ pc = [t \in Threads |->
               CASE t \in Producers -> "cb_idle"
                 [] t = "cons" -> "c_idle"
                 [] t = "flusher" -> "f_idle"
                 [] OTHER -> "off"]

QueueStep ==
    \/ VideoCallback
    \/ VideoLogSize
    \/ AudioCallback
    \/ \E t \in Producers : PutAlloc(t)
    \/ \E t \in Producers : PutLock(t)
    \/ \E t \in Producers : PutTail(t)
    \/ \E t \in Producers : PutSignalUnlock(t)
    \/ \E t \in Consumers : GetLock(t)
    \/ \E t \in Consumers : GetTake(t)
    \/ \E t \in Consumers : GetSpuriousWake(t)
    \/ \E t \in Consumers : GetRelock(t)
    \/ \E t \in Consumers : GetUnlock(t)

NextQ ==
    \/ QueueStep
    \/ ConsumerGet
    \/ FlushLock("flusher")
    \/ FlushStep("flusher")
    \/ FlushReset("flusher")
    \/ FlushUnlock("flusher")

SpecQ == InitQ /\ [][NextQ]_vars

(* ------------------------------------------------------------ push_packet *)

\* A signal after which push_packet would leave its loop.
CondSignalStops(sig) ==
    /\ signals' = signals + (IF sig THEN 1 ELSE 0)
    /\ cyc' = cyc + (IF sig THEN 1 ELSE 0)
    /\ mainwait' = (mainwait /\ ~sig)
    /\ pc' = [pc EXCEPT !["writer"] = IF sig THEN "w_done"
                                      ELSE IF @ = "w_frames" THEN "w_mem"
                                      ELSE "get_lock",
                        !["main"] = IF sig /\ mainwait THEN "m_woken" ELSE @]

\* pthread_cond_signal(&cond): wakes main if it waits in pthread_cond_wait
\* (line 468); otherwise the signal is lost.
CondSignal(sig) ==
    /\ signals' = signals + (IF sig THEN 1 ELSE 0)
    /\ cyc' = cyc + (IF sig THEN 1 ELSE 0)
    /\ mainwait' = (mainwait /\ ~sig)
    /\ pc' = [pc EXCEPT !["writer"] = IF @ = "w_frames" THEN "w_mem" ELSE "get_lock",
                        !["main"] = IF sig /\ mainwait THEN "m_woken" ELSE @]

\* The conversion of the int max_frames to uint64_t in frame_count > max_frames.
ToUnsigned(i) == (i + ULL_MOD) % ULL_MOD

\* The comparison of line 315 without the conversion of max_frames.
FrameLimitReachedSigned(mf, fc) == mf # 0 /\ fc > mf

\* Line 315.
FrameLimitReached(mf, fc) == mf # 0 /\ fc > ToUnsigned(mf)

\* The comparison of line 319 with >= in place of >.
MemoryLimitReachedAtLimit(sz, ml) == sz >= ml

\* Line 319.
MemoryLimitReached(sz, ml) == sz > ml

\* Line 314: av_interleaved_write_frame takes the packet and releases it.
WriterWrite ==
    /\ Alive /\ pc["writer"] = "w_write"
    /\ written' = Append(written, cur["writer"])
    /\ pkts' = CountUnref(pkts, cur["writer"])
    /\ cyc' = 0
    /\ pc' = Goto("writer", "w_frames")
    /\ UNCHANGED <<qvars, mutex, qwait, heap, pkt1, cur, ret, block, progvars,
                   frame_count, capturing, mainwait, signals, trailer, enq,
                   deq, gone, qsignals, snap>>

\* Lines 315-318.
WriterFrames ==
    /\ Alive /\ pc["writer"] = "w_frames"
    /\ CondSignal(FrameLimitReached(max_frames, frame_count))
    /\ UNCHANGED <<qvars, mutex, qwait, heap, pkts, pkt1, cur, ret, block,
                   progvars, frame_count, capturing, written, trailer, enq,
                   deq, gone, qsignals, snap>>

\* Lines 319-322: avpacket_queue_size locks, reads and unlocks.
WriterMemory ==
    /\ Alive /\ pc["writer"] = "w_mem"
    /\ mutex = NoThread
    /\ CondSignal(MemoryLimitReached(size, memory_limit))
    /\ UNCHANGED <<qvars, mutex, qwait, heap, pkts, pkt1, cur, ret, block,
                   progvars, frame_count, capturing, written, trailer, enq,
                   deq, gone, qsignals, snap>>

(* ------------------------------------------------------------------- main *)

\* Line 461: pthread_create starts push_packet, or fails (goto bail).
MainCreate ==
    /\ Alive /\ pc["main"] = "m_create"
    /\ \E ok \in BOOLEAN :
          /\ pc' = [pc EXCEPT !["main"] = IF ok THEN "m_start" ELSE "m_bail",
                              !["writer"] = IF ok THEN "get_lock" ELSE @]
          /\ block' = [block EXCEPT !["writer"] = IF ok THEN WriterBlock ELSE @]
    /\ UNCHANGED <<qvars, mutex, qwait, heap, pkts, pkt1, cur, ret,
                   progvars, frame_count, coordvars, enq, deq, gone, qsignals,
                   snap>>

\* Line 464: decklink_capture_start: the driver's threads begin to call the
\* callbacks.
MainStart ==
    /\ Alive /\ pc["main"] = "m_start"
    /\ capturing' = TRUE
    /\ pc' = [pc EXCEPT !["main"] = "m_wait", !["video"] = "cb_idle",
                        !["audio"] = "cb_idle"]
    /\ UNCHANGED <<qvars, mutex, qwait, heap, pkts, pkt1, cur, ret, block,
                   progvars, frame_count, mainwait, signals, cyc, written,
                   trailer, enq, deq, gone, qsignals, snap>>

\* Lines 467-468: lock mux, wait on cond (which releases mux). mux is local
\* to main and no other thread locks it, so it is not a variable of its own.
MainWait ==
    /\ Alive /\ pc["main"] = "m_wait"
    /\ mainwait' = TRUE
    /\ pc' = Goto("main", "m_waiting")
    /\ UNCHANGED <<qvars, mutex, qwait, heap, pkts, pkt1, cur, ret, block,
                   progvars, frame_count, capturing, signals, cyc, written,
                   trailer, enq, deq, gone, qsignals, snap>>

\* The holder of mux: main locks it at line 467, pthread_cond_wait releases
\* it while main waits and takes it again before it returns, and line 469
\* unlocks it. No other thread touches mux.
mux == IF pc["main"] = "m_woken" THEN "main" ELSE NoThread

\* Line 468: pthread_cond_wait may return without a signal.
MainSpuriousWake ==
    /\ Alive /\ pc["main"] = "m_waiting"
    /\ mainwait' = FALSE
    /\ pc' = Goto("main", "m_woken")
    /\ UNCHANGED <<qvars, mutex, qwait, heap, pkts, pkt1, cur, ret, block,
                   progvars, frame_count, capturing, signals, cyc, written,
                   trailer, enq, deq, gone, qsignals, snap>>

\* decklink_capture_stop: no callback is running or starts once it returns.
CaptureStopped == \A t \in Producers : pc[t] = "cb_idle"

\* Lines 469-473: unlock mux, stop the capture, ret = 0.
MainStop ==
    /\ Alive /\ pc["main"] = "m_woken"
    /\ CaptureStopped
    /\ capturing' = FALSE
    /\ ret' = [ret EXCEPT !["main"] = 0]
    /\ pc' = Goto("main", "m_bail")
    /\ UNCHANGED <<qvars, mutex, qwait, heap, pkts, pkt1, cur, block,
                   progvars, frame_count, mainwait, signals, cyc, written,
                   trailer, enq, deq, gone, qsignals, snap>>

\* Lines 475-484: free the capture, write the trailer, close the file.
MainTrailer ==
    /\ Alive /\ pc["main"] = "m_bail"
    /\ trailer' = TRUE
    /\ pc' = Goto("main", "m_return")
    /\ UNCHANGED <<qvars, mutex, qwait, heap, pkts, pkt1, cur, ret, block,
                   progvars, frame_count, capturing, mainwait, signals, cyc,
                   written, enq, deq, gone, qsignals, snap>>

\* Line 486: main returns and the process, the writer thread with it, ends.
MainReturn ==
    /\ Alive /\ pc["main"] = "m_return"
    /\ pc' = Goto("main", "exited")
    /\ UNCHANGED <<qvars, mutex, qwait, heap, pkts, pkt1, cur, ret, block,
                   progvars, frame_count, coordvars, enq, deq, gone, qsignals,
                   snap>>

(* ------------------------------------------------------------------- Spec *)

\* The state when main reaches line 461: the options parsed, the queue
\* initialised, ret = 1.
Init ==
    /\ QueueInit
    /\ verbose \in {0, 1}
    /\ max_frames \in MaxFramesChoices
    /\ memory_limit \in MemoryLimits
    /\ capturing = FALSE
    /\ pc = [t \in Threads |-> IF t = "main" THEN "m_create" ELSE "off"]

Next ==
    \/ QueueStep
    \/ WriterWrite
    \/ WriterFrames
    \/ WriterMemory
    \/ MainCreate
    \/ MainStart
    \/ MainWait
    \/ MainSpuriousWake
    \/ MainStop
    \/ MainTrailer
    \/ MainReturn

Spec == Init /\ [][Next]_vars

(* --------------------------------------------------------------- SpecFair *)

\* The steps of one callback thread of the capture driver.
ProducerStep(t) ==
    \/ (t = "video" /\ (VideoCallback \/ VideoLogSize))
    \/ (t = "audio" /\ AudioCallback)
    \/ PutAlloc(t) \/ PutLock(t) \/ PutTail(t) \/ PutSignalUnlock(t)

\* The steps of the writer thread other than a spurious return of its wait.
WriterStep ==
    \/ GetLock("writer") \/ GetTake("writer") \/ GetRelock("writer")
    \/ GetUnlock("writer")
    \/ WriterWrite \/ WriterFrames \/ WriterMemory

\* The steps of main other than a spurious return of its wait.
MainStep ==
    \/ MainCreate \/ MainStart \/ MainWait \/ MainStop \/ MainTrailer
    \/ MainReturn

\* Every thread that can run is scheduled in the end; the driver delivers
\* frames while it captures. No wait is assumed to return spuriously.
Fairness ==
    /\ WF_vars(MainStep)
    /\ WF_vars(WriterStep)
    /\ \A t \in Producers : WF_vars(ProducerStep(t))

SpecFair == Init /\ [][Next]_vars /\ Fairness

(* ------------------------------------------------------------ SpecLongRun *)

\* Values of frame_count from which a few more frames reach the small
\* counts and the wrap-around of the unsigned counter.
FrameCounts == {0, ULL_MOD - 2}

\* A capture under way with -v: main waits on cond, the writer is about to
\* call get on the empty queue, the callbacks are idle; frame_count frames
\* were captured so far and none of them is queued (a put that fails drops
\* its frame, and line 315 is only reached after a write).
InitLongRun ==
    /\ first_pkt = NULL /\ last_pkt = NULL /\ nb_packets = 0 /\ size = 0
    /\ mutex = NoThread /\ qwait = {}
    /\ heap = [a \in Addr |-> FreeNode]
    /\ pkts = <<>>
    /\ pkt1 = [t \in Threads |-> NULL]
    /\ cur = [t \in Threads |-> 0]
    /\ ret = [t \in Threads |-> IF t = "main" THEN 1 ELSE 0]
    /\ block = [t \in Threads |-> IF t = "writer" THEN WriterBlock ELSE 0]
    /\ verbose = 1
    /\ max_frames \in MaxFramesChoices
    /\ memory_limit = DefaultMemoryLimit
    /\ frame_count \in FrameCounts
    /\ capturing = TRUE
    /\ mainwait = TRUE /\ signals = 0 /\ cyc = 0 /\ written = <<>>
    /\ trailer = FALSE
    /\ enq = <<>> /\ deq = <<>> /\ gone = {} /\ qsignals = 0
    /\ snap = [t \in Threads |-> NoSnap]
    /\ pc = [t \in Threads |->
               CASE t \in Producers -> "cb_idle"
                 [] t = "writer" -> "get_lock"
                 [] t = "main" -> "m_waiting"
                 [] OTHER -> "off"]

NextLongRun ==
    \/ QueueStep
    \/ WriterWrite
    \/ WriterFrames
    \/ WriterMemory
    \/ MainSpuriousWake
    \/ MainStop
    \/ MainTrailer
    \/ MainReturn

SpecLongRun == InitLongRun /\ [][NextLongRun]_vars

(* ----------------------------------------------------------------- claims *)

Tags(s) == {pkts[s[i]].tag : i \in 1 .. Len(s)}

\* C1: units leave the queue in the order in which their puts took the queue
\* lock, whatever their stream tag: the units returned by get so far are a
\* prefix of the units enqueued (those flush released left out), and whenever
\* the mutex is free the units returned followed by the units still chained
\* from first_pkt are exactly the units enqueued, in that order.
FifoOrder ==
    /\ IsPrefix(deq, Live(enq))
    /\ mutex = NoThread => deq \o ChainUnits = Live(enq)

\* C1 witness: all the units were enqueued, by both callbacks and in another
\* order than the callbacks were entered, and all were returned by get.
FifoWitness ==
    /\ Len(enq) = MaxUnits /\ deq = enq /\ gone = {}
    /\ Tags(deq) = {"video", "audio"}
    /\ enq[1] > enq[2]

\* C2: whenever no thread holds the queue mutex, size is the sum, over the
\* units chained from first_pkt, of payload size plus node overhead; and size
\* never exceeds what was enqueued in all (it has not wrapped below zero).
SizeAccounting ==
    /\ mutex = NoThread => size = SumBytes(ChainUnits)
    /\ size <= SumBytes(enq)

\* C2 witness: puts, a get and a flush have happened; a unit is queued whose
\* size differs from that of the unit get returned.
SizeWitness ==
    /\ mutex = NoThread /\ nb_packets = 1 /\ Len(deq) = 1 /\ gone # {}
    /\ size = NodeBytes(ChainUnits[1])
    /\ pkts[deq[1]].size # pkts[ChainUnits[1]].size

\* C3: whenever no thread holds the queue mutex, nb_packets is the number of
\* nodes reachable from first_pkt, first_pkt is NULL exactly when last_pkt is
\* NULL exactly when nb_packets is 0, and last_pkt is the final node of the
\* chain, with next NULL; the chained nodes are allocated and distinct.
ListShape ==
    mutex = NoThread =>
        /\ nb_packets = Len(ChainAddrs)
        /\ (first_pkt = NULL) = (last_pkt = NULL)
        /\ (first_pkt = NULL) = (nb_packets = 0)
        /\ first_pkt # NULL =>
              /\ last_pkt = ChainAddrs[Len(ChainAddrs)]
              /\ heap[last_pkt].next = NULL
        /\ \A i \in 1 .. Len(ChainAddrs) : heap[ChainAddrs[i]].used
        /\ Cardinality(Range(ChainAddrs)) = Len(ChainAddrs)

\* C3 witness: the queue was emptied by get and holds two nodes again.
ListShapeWitness ==
    /\ mutex = NoThread /\ nb_packets = 2 /\ Len(deq) = 1
    /\ first_pkt # last_pkt /\ heap[first_pkt].next = last_pkt

\* C5: a blocking get never returns 0; the unit it returns was enqueued and
\* is the one it removed; when it found the queue empty at its call, the unit
\* was enqueued by a put that took the lock after the call, and it is the
\* first such unit that flush did not release. Only a blocking call that
\* found the queue empty waits.
BlockingGet ==
    \A t \in Consumers :
        /\ (pc[t] = "get_unlock" /\ block[t] # 0) =>
              /\ ret[t] = 1
              /\ cur[t] \in Range(enq)
              /\ deq # <<>> /\ cur[t] = deq[Len(deq)]
              /\ snap[t][1][1] = NULL =>
                    \E j \in (snap[t][3] + 1) .. Len(enq) :
                        /\ enq[j] = cur[t]
                        /\ \A k \in (snap[t][3] + 1) .. (j - 1) : enq[k] \in gone
        /\ pc[t] \in {"get_wait", "get_relock"} =>
              block[t] # 0 /\ snap[t][1][1] = NULL

\* C5 witness: a blocking get called on an empty queue is about to return
\* the second unit it has delivered.
BlockingGetWitness ==
    /\ pc["cons"] = "get_unlock" /\ block["cons"] = 1 /\ ret["cons"] = 1
    /\ snap["cons"][1][1] = NULL /\ Len(deq) = 2

\* C6: a non-blocking get never waits on the queue's condition; on an empty
\* queue it returns 0 and first_pkt, last_pkt, nb_packets, size and the
\* caller's packet are as they were when it took the lock; it returns 0 only
\* on an empty queue.
NonBlockingGet ==
    \A t \in Consumers :
        block[t] = 0 =>
            /\ t \notin qwait /\ pc[t] \notin {"get_wait", "get_relock"}
            /\ pc[t] = "get_unlock" =>
                  /\ (snap[t][1][1] = NULL) = (ret[t] = 0)
                  /\ ret[t] = 0 =>
                        /\ QSnapshot = snap[t][1]
                        /\ QSnapshot = <<NULL, NULL, 0, 0>>
                        /\ cur[t] = snap[t][2]

\* C6 witness: a non-blocking get is returning 0 on a queue that was used
\* before, the caller's packet still holding the unit of an earlier get.
NonBlockingGetWitness ==
    /\ pc["cons"] = "get_unlock" /\ block["cons"] = 0 /\ ret["cons"] = 0
    /\ cur["cons"] # 0 /\ Len(deq) = 2

\* C7: a producer never waits on the queue's condition; a put that has its
\* node is admitted whenever the mutex is free, whatever nb_packets and size
\* are; and the thread holding the mutex is inside a critical section of
\* put or get, never in the muxer write or in a condition wait.
ProducersNeverBlocked ==
    /\ \A t \in Producers :
          /\ t \notin qwait /\ pc[t] \notin {"get_wait", "get_relock"}
          /\ (Alive /\ pc[t] = "put_lock" /\ mutex = NoThread) => ENABLED PutLock(t)
    /\ mutex # NoThread =>
          /\ pc[mutex] \in {"put_tail", "put_unlock", "get_take", "get_unlock"}
          /\ mutex \notin qwait
    /\ pc["writer"] \in {"w_write", "w_frames"} => mutex # "writer"
    /\ pc["main"] = "m_waiting" => mutex # "main"

\* C7 witness: a put is completing on a queue that was already above
\* memory_limit when it was admitted, while the writer is in the muxer write.
ProducersNeverBlockedWitness ==
    \E t \in Producers :
        /\ pc[t] = "put_unlock" /\ mutex = t
        /\ size - NodeBytes(cur[t]) > memory_limit
        /\ pc["writer"] = "w_write"

Failed(u) == pkts[u].res < 0

\* C8: a put that fails returns a negative error and leaves no trace of its
\* unit: the unit is not enqueued, not chained, holds no node, nothing of it
\* was released; the queue's condition was signalled once per successful put
\* and nb_packets counts the successful puts only; the callback returns 0.
FailedPutDropsOwnFrame ==
    /\ \A u \in 1 .. Len(pkts) :
          /\ pkts[u].res \in {Pending, 0} \/ Failed(u)
          /\ Failed(u) =>
                /\ u \notin Range(enq) /\ u \notin Range(ChainUnits)
                /\ \A a \in Addr : heap[a].used => heap[a].unit # u
                /\ pkts[u].refs = 0 /\ pkts[u].freed = 0
    /\ qsignals = Cardinality({u \in 1 .. Len(pkts) : pkts[u].res = 0})
    /\ mutex = NoThread =>
          nb_packets = Len(enq) - Len(deq) - Cardinality(gone)
    /\ \A t \in Producers : pc[t] = "cb_idle" => ret[t] = 0

\* C8 witness: the put of a video frame failed and a later video frame is
\* queued; the callback is idle again, the process alive.
FailedPutWitness ==
    /\ Alive /\ pc["video"] = "cb_idle"
    /\ \E u, v \in 1 .. Len(pkts) :
          /\ u < v /\ pkts[u].tag = "video" /\ pkts[v].tag = "video"
          /\ Failed(u) /\ pkts[v].res = 0 /\ v \in Range(ChainUnits)

\* C9: when flush has reset the queue and is about to unlock, nb_packets and
\* size are 0, first_pkt and last_pkt are NULL, every unit that was queued
\* when it took the lock has had its payload and its node released exactly
\* once and no node is left allocated but those of puts not yet linked; no
\* unit's payload or node is ever released twice.
FlushReleasesAll ==
    /\ pc["flusher"] = "f_unlock" =>
          /\ QSnapshot = <<NULL, NULL, 0, 0>>
          /\ \A u \in Range(snap["flusher"]) :
                pkts[u].refs = 1 /\ pkts[u].freed = 1 /\ u \in gone
          /\ \A a \in Addr : heap[a].used =>
                \E t \in Producers : pc[t] = "put_lock" /\ pkt1[t] = a
    /\ \A u \in 1 .. Len(pkts) : pkts[u].refs <= 1 /\ pkts[u].freed <= 1

\* C9 witness: flush has released two queued units and is about to unlock.
FlushWitness ==
    /\ pc["flusher"] = "f_unlock" /\ Len(snap["flusher"]) = 2
    /\ Tags(snap["flusher"]) = {"video", "audio"}

Occurrences(s, u) == Cardinality({i \in 1 .. Len(s) : s[i] = u})

\* C4: over the whole run, shutdown included, every unit a put enqueued is
\* returned by get to the writer and written to the muxer exactly once: no
\* unit is ever written twice, and when main has returned after the writer
\* signalled a threshold, no enqueued unit is missing from the muxer's input
\* (the program never flushes the queue).
EveryUnitWrittenOnce ==
    /\ \A u \in Range(enq) : Occurrences(written, u) <= 1
    /\ (pc["main"] = "exited" /\ signals > 0) =>
          \A u \in Range(enq) : Occurrences(written, u) = 1

WriteCycleDone == pc["writer"] \notin {"w_write", "w_frames", "w_mem"}

\* C10: with max_frames at the frame limit and the memory limit out of
\* reach, once the writer loop has written one unit more than the limit, all
\* of them video frames, and finished that write cycle, cond was signalled
\* exactly once in that cycle.
FrameLimitSignalledOnce ==
    ( /\ max_frames = FrameLimit /\ memory_limit = DefaultMemoryLimit
      /\ Len(written) = FrameLimit + 1 /\ Tags(written) = {"video"}
      /\ WriteCycleDone )
    => cyc = 1

\* C11 as stated: with a memory limit of one queued video unit, once two
\* units were enqueued and both were drained through the writer loop, cond
\* has been signalled.
MemoryLimitSignalAfterTwoUnits ==
    ( /\ memory_limit = 4 + NodeOverhead
      /\ Len(enq) = 2 /\ Len(written) = 2 /\ Tags(written) = {"video"}
      /\ WriteCycleDone )
    => signals > 0

\* C11 amended: the memory check of the writer loop signals cond exactly
\* when the size of the queue, read after the write, exceeds memory_limit:
\* what was drained does not count. With a limit of one queued video unit
\* and the frame limit off, cond is signalled only if a third unit was
\* enqueued.
MemorySignalOnQueuedSize ==
    /\ [][WriterMemory =>
            /\ (signals' = signals + 1) <=> (size > memory_limit)
            /\ signals' \in {signals, signals + 1}]_vars
    /\ []( ( /\ memory_limit = 4 + NodeOverhead /\ max_frames \in {-1, 0}
             /\ signals > 0 )
           => Len(enq) >= 3 )

\* C11 witness: with a limit of one queued video unit and the frame limit
\* off, the writer signalled after its first write, two units being queued.
MemorySignalWitness ==
    /\ memory_limit = 4 + NodeOverhead /\ max_frames = -1
    /\ signals = 1 /\ cyc = 1 /\ Len(written) = 1 /\ nb_packets = 2
    /\ pc["writer"] = "get_lock"

\* C12: with max_frames at the frame limit and the memory limit out of
\* reach, when one video frame more than the limit is enqueued through
\* video_callback, the writer loop writes them in the order enqueued, cond is
\* not signalled before the last of them is written, and it has been
\* signalled when the write cycle of the last one is over.
FrameLimitScenario ==
    ( /\ max_frames = FrameLimit /\ memory_limit = DefaultMemoryLimit
      /\ Len(enq) = FrameLimit + 1 /\ Tags(enq) = {"video"} )
    => /\ IsPrefix(written, enq)
       /\ signals > 0 => Len(written) = FrameLimit + 1
       /\ (Len(written) = FrameLimit + 1 /\ WriteCycleDone) => signals > 0

\* C13: when main, woken by a signal of the writer, has written the trailer,
\* the capture is stopped and no put is under way, the queue is empty, and
\* the writer thread has left its loop: it holds no unit it has yet to write.
TeardownOrder ==
    (trailer /\ signals > 0) =>
        /\ ~capturing /\ CaptureStopped
        /\ first_pkt = NULL /\ nb_packets = 0
        /\ pc["writer"] = "w_done"

\* C14: frame_count is the number of video_callback invocations so far,
\* whatever verbose is: every invocation adds exactly one to it.
FrameCountCountsVideoFrames ==
    frame_count = Cardinality({u \in 1 .. Len(pkts) : pkts[u].tag = "video"})

\* C15: the frame check of the writer loop signals cond exactly when a
\* maximum is set (max_frames positive) and frame_count is greater than it;
\* with max_frames -1 or 0 it never signals, whatever frame_count is, the
\* largest value of the unsigned counter included.
FrameSignalIffLimitExceeded ==
    [][WriterFrames =>
          /\ (signals' = signals + 1) <=>
                (max_frames > 0 /\ frame_count > max_frames)
          /\ signals' \in {signals, signals + 1}
          /\ max_frames \in {-1, 0} => signals' = signals]_vars

\* C15 witness: with max_frames at its default -1 and frame_count at the
\* largest value of the counter, the frame check has run and not signalled.
FrameSignalWitness ==
    /\ max_frames = -1 /\ frame_count = ULL_MOD - 1
    /\ pc["writer"] = "w_mem" /\ cyc = 0 /\ Len(written) = 1

\* C16: a check of the writer loop, whether it signals cond or not, leaves
\* the queue, the unit written and what was dequeued as they are and goes on
\* to the next statement of the loop: to the memory check, then to the next
\* get. The writer never leaves its loop; what it dequeued and wrote is a
\* prefix of what was enqueued, in order; and after a signal, while the
\* process is alive, a queued unit and a free mutex leave the writer a step
\* to take.
SignalKeepsDraining ==
    /\ [][(WriterFrames \/ WriterMemory) =>
            /\ UNCHANGED <<qvars, heap, pkts, cur, written, deq, enq>>
            /\ pc'["writer"] = (IF pc["writer"] = "w_frames" THEN "w_mem"
                                ELSE "get_lock")]_vars
    /\ []( /\ pc["writer"] # "w_done"
           /\ IsPrefix(written, deq) /\ IsPrefix(deq, enq)
           /\ Len(deq) <= Len(written) + 1
           /\ ( /\ Alive /\ signals > 0 /\ pc["writer"] # "off"
                /\ first_pkt # NULL /\ mutex = NoThread )
              => ENABLED WriterStep )

\* C16 witness: cond was signalled in an earlier write cycle and the writer
\* has since dequeued and written a further unit.
SignalKeepsDrainingWitness ==
    /\ Alive /\ signals > 0 /\ cyc = 0
    /\ pc["writer"] = "w_frames" /\ Len(written) = 2

\* C17: when main, woken by a signal of the writer, has stopped the capture,
\* torn the pipeline down and returned, the writer loop has ended: its
\* blocking get returned 0 and push_packet returned.
WriterStopsAfterTeardown ==
    (pc["main"] = "exited" /\ ret["main"] = 0 /\ signals > 0)
    => pc["writer"] = "w_done" /\ ret["writer"] = 0

\* The steps of the callbacks inside avpacket_queue_put and
\* avpacket_queue_size, and of the writer.
QueueProgress ==
    \/ VideoLogSize
    \/ \E t \in Producers : PutAlloc(t) \/ PutLock(t) \/ PutTail(t)
                            \/ PutSignalUnlock(t)
    \/ WriterStep

\* A thread that is at a call which takes the queue mutex, or waits on the
\* queue's condition.
AtQueueLock(t) ==
    pc[t] \in {"put_lock", "get_lock", "get_relock", "get_wait", "cb_qsize",
               "w_mem"}

\* C18: a thread that waits for the queue mutex or on the queue's condition
\* holds neither mux nor the queue mutex; main, waiting on cond, holds
\* neither; the holder of the queue mutex is not waiting for anything; the
\* writer signals cond holding neither; and while the process is alive with a
\* unit queued or a put under way, a callback or the writer has a step to
\* take.
NoCrossLockDeadlock ==
    /\ \A t \in Threads : AtQueueLock(t) => mux # t /\ mutex # t
    /\ pc["main"] \in {"m_wait", "m_waiting"} =>
          mux = NoThread /\ mutex # "main"
    /\ mutex # NoThread =>
          /\ mux # mutex /\ mutex \notin qwait
          /\ pc[mutex] \in {"put_tail", "put_unlock", "get_take", "get_unlock"}
    /\ pc["writer"] \in {"w_frames", "w_mem"} =>
          mux # "writer" /\ mutex # "writer"
    /\ ( /\ Alive
         /\ \/ first_pkt # NULL
            \/ \E t \in Producers : pc[t] \in {"put_alloc", "put_lock",
                                                "put_tail", "put_unlock"} )
       => ENABLED QueueProgress

\* C18 witness: main holds mux, back from its wait, while the writer waits on
\* the queue's condition, a callback holds the queue mutex and the other
\* waits for it.
NoCrossLockWitness ==
    /\ mux = "main" /\ pc["writer"] = "get_wait"
    /\ mutex = "video" /\ pc["audio"] = "put_lock"

\* C19: once the writer has signalled cond, main eventually leaves its wait
\* and stops the capture.
SignalLeadsToStop ==
    (signals > 0) ~> (pc["main"] \in {"m_bail", "m_return", "exited"})

\* C20: main has called decklink_capture_stop (ret = 0, line 473) only if
\* the writer signalled cond at least once.
StopOnlyAfterSignal ==
    (pc["main"] \in {"m_bail", "m_return", "exited"} /\ ret["main"] = 0)
    => signals > 0

====
